---- MODULE Spec2Model ----
(***************************************************************************)
(* A model of the consultation_agent repository:                           *)
(*   - the consultation dialogue engine (src/consultation_engine.py):      *)
(*     sessions keyed by identifier, handle_message and its five handlers; *)
(*   - the ingestion of the uploads folder (src/app.py,                    *)
(*     src/process_uploads.py, src/startup_processor.py,                   *)
(*     src/file_tracker.py): knowledge bases, processed-files list.        *)
(* Python strings are modelled as sequences of one-character strings so    *)
(* that startswith, replace, lower, "in" and the regular expressions are   *)
(* computed as the code computes them.                                     *)
(***************************************************************************)
EXTENDS Integers, Sequences, FiniteSets, TLC

VARIABLES
    sessions,      \* ConsultationEngine.sessions: session_id -> ConsultationSession
    responses,     \* observation: session_id -> outcome of the last handle_message call for it
    reported,      \* observation: session_id -> last stage reported to it, 'error' ignored
    last,          \* observation: the last /api/consultation request (session_id, HTTP
                   \* status, stage in which a session it created was started, the
                   \* message and action_type sent)
    folder,        \* the files of the uploads folder
    processed,     \* processed_files.json: the names marked as processed
    diskKB,        \* vector_cache/knowledge_base.pkl: the pickled knowledge list
    appKB,         \* rag.knowledge_base of the application's InMemoryRAG instance
    appUp,         \* whether the application process is running
    lastRun,       \* observation: names the last manual processing run reported as processed
    appCtx,        \* rag.context_base of the application's InMemoryRAG instance
    diskCtx,       \* vector_cache/context_base.pkl: the pickled context list
    starts,        \* the number of application starts; rag.current_session_id is the
                   \* uuid drawn at the last of them
    selected_category,  \* rag.selected_category
    chat,          \* observation: the last /api/chat request and what it was answered from
    search,        \* one call of search_knowledge_base: its arguments and its result
    threads        \* the requests being served at the same time: position and locals

consultVars == <<sessions, responses, reported, last>>
uploadVars == <<folder, processed, diskKB, appKB, appUp, lastRun>>
ragVars == <<appCtx, diskCtx, starts, selected_category, chat>>
otherVars == <<search, threads>>

vars == <<consultVars, uploadVars, ragVars, otherVars>>

---------------------------------------------------------------------------
(* String literals of the source, as character sequences.                  *)

S_age_ == <<"a", "g", "e", "_">>
S_level_ == <<"l", "e", "v", "e", "l", "_">>
S_answer_ == <<"a", "n", "s", "w", "e", "r", "_">>
S_start_assessment == <<"s", "t", "a", "r", "t", "_", "a", "s", "s", "e", "s", "s", "m", "e", "n", "t">>
S_skip_assessment == <<"s", "k", "i", "p", "_", "a", "s", "s", "e", "s", "s", "m", "e", "n", "t">>
S_start == <<"s", "t", "a", "r", "t">>
S_begin == <<"b", "e", "g", "i", "n">>
S_yes == <<"y", "e", "s">>
S_ready == <<"r", "e", "a", "d", "y">>
S_skip == <<"s", "k", "i", "p">>
S_no == <<"n", "o">>
S_later == <<"l", "a", "t", "e", "r">>
S_intermediate == <<"i", "n", "t", "e", "r", "m", "e", "d", "i", "a", "t", "e">>
S_beginner == <<"b", "e", "g", "i", "n", "n", "e", "r">>
S_advanced == <<"a", "d", "v", "a", "n", "c", "e", "d">>
S_unsure == <<"u", "n", "s", "u", "r", "e">>
S_my_name_is == <<"m", "y", " ", "n", "a", "m", "e", " ", "i", "s">>
S_i_am == <<"i", " ", "a", "m">>
S_i_m == <<"i", "'", "m">>
S_call_me == <<"c", "a", "l", "l", " ", "m", "e">>
S_name_is == <<"n", "a", "m", "e", " ", "i", "s">>
S_name_colon == <<"n", "a", "m", "e", ":">>

LowerAlpha == <<"a", "b", "c", "d", "e", "f", "g", "h", "i", "j", "k", "l", "m", "n", "o", "p", "q", "r", "s", "t", "u", "v", "w", "x", "y", "z">>
UpperAlpha == <<"A", "B", "C", "D", "E", "F", "G", "H", "I", "J", "K", "L", "M", "N", "O", "P", "Q", "R", "S", "T", "U", "V", "W", "X", "Y", "Z">>
Digits == <<"0", "1", "2", "3", "4", "5", "6", "7", "8", "9">>

---------------------------------------------------------------------------
(* Python str operations.                                                  *)

Range(f) == {f[i] : i \in DOMAIN f}

IndexIn(c, alphabet) == CHOOSE i \in DOMAIN alphabet : alphabet[i] = c

LowerSet == Range(LowerAlpha)
UpperSet == Range(UpperAlpha)
DigitSet == Range(Digits)

IsLetter(c) == c \in LowerSet \/ c \in UpperSet
IsDigit(c) == c \in DigitSet
\* \w and \s of the re module, on the ASCII characters the inputs use
IsWordChar(c) == IsLetter(c) \/ IsDigit(c) \/ c = "_"
IsSpace(c) == c \in {" ", "\t", "\n"}

LowerChar(c) == IF c \in UpperSet THEN LowerAlpha[IndexIn(c, UpperAlpha)] ELSE c
UpperChar(c) == IF c \in LowerSet THEN UpperAlpha[IndexIn(c, LowerAlpha)] ELSE c

\* str.lower()
Lower(s) == [i \in DOMAIN s |-> LowerChar(s[i])]

\* str.title(): a letter is upper-cased when no letter precedes it, lower-cased otherwise
Title(s) ==
    [i \in DOMAIN s |->
        IF i > 1 /\ IsLetter(s[i - 1]) THEN LowerChar(s[i]) ELSE UpperChar(s[i])]

\* whether literal w occurs in s at index i
OccursAt(s, i, w) ==
    /\ i >= 1
    /\ i + Len(w) - 1 <= Len(s)
    /\ SubSeq(s, i, i + Len(w) - 1) = w

\* str.startswith
StartsWith(s, p) == OccursAt(s, 1, p)

\* the "in" operator on two strings
Contains(s, w) == \E i \in 1..(Len(s) + 1) : OccursAt(s, i, w)

\* str.replace(w, ""): every non-overlapping occurrence removed, left to right
RECURSIVE RemoveFrom(_, _, _)
RemoveFrom(s, i, w) ==
    IF i > Len(s) THEN <<>>
    ELSE IF OccursAt(s, i, w) THEN RemoveFrom(s, i + Len(w), w)
    ELSE <<s[i]>> \o RemoveFrom(s, i + 1, w)

RemoveAll(s, w) == RemoveFrom(s, 1, w)

\* str.strip()
RECURSIVE LStrip(_)
LStrip(s) == IF s # <<>> /\ IsSpace(Head(s)) THEN LStrip(Tail(s)) ELSE s

RECURSIVE RStrip(_)
RStrip(s) ==
    IF s # <<>> /\ IsSpace(s[Len(s)]) THEN RStrip(SubSeq(s, 1, Len(s) - 1)) ELSE s

Strip(s) == RStrip(LStrip(s))

\* int(str): surrounding whitespace, an optional sign, decimal digits; anything
\* else raises ValueError (ok = FALSE)
RECURSIVE DigitsValue(_, _)
DigitsValue(s, acc) ==
    IF s = <<>> THEN acc
    ELSE DigitsValue(Tail(s), 10 * acc + (IndexIn(Head(s), Digits) - 1))

IntParse(s) ==
    LET t == Strip(s)
        signed == t # <<>> /\ Head(t) \in {"+", "-"}
        d == IF signed THEN Tail(t) ELSE t
    IN  IF d # <<>> /\ \A i \in DOMAIN d : IsDigit(d[i])
        THEN [ok |-> TRUE,
              val |-> IF signed /\ Head(t) = "-" THEN 0 - DigitsValue(d, 0)
                      ELSE DigitsValue(d, 0)]
        ELSE [ok |-> FALSE, val |-> 0]

---------------------------------------------------------------------------
(* Python values that reach the engine as user_input or are stored in      *)
(* session.data: a str, None, or a dict (a JSON object of the request).    *)

Str(cs) == [t |-> "str", v |-> cs]
None == [t |-> "null", v |-> <<>>]
Dict(f) == [t |-> "dict", v |-> f]
\* any other value (a JSON number): not a str, not a dict, not None
Other == [t |-> "int", v |-> <<>>]
\* the empty list (the JSON value [])
EmptyList == [t |-> "list", v |-> <<>>]

IsStr(x) == x.t = "str"
IsDict(x) == x.t = "dict"
\* equality of a value with a str literal (value == "literal")
EqStr(x, lit) == IsStr(x) /\ x.v = lit
\* truthiness of a value (bool(x)): None, "", {} and [] are falsy
Truthy(x) ==
    CASE x.t = "null" -> FALSE
      [] x.t = "str" -> x.v # <<>>
      [] x.t = "dict" -> DOMAIN x.v # {}
      [] x.t = "list" -> x.v # <<>>
      [] OTHER -> TRUE

\* whether a value can be a dict key (hash(x) does not raise TypeError)
Hashable(x) == x.t \notin {"dict", "list"}

\* dict.get(key, default)
DictGet(d, key, default) == IF key \in DOMAIN d THEN d[key] ELSE default

\* dict.update(other dict)
DictUpdate(d, f) ==
    [k \in DOMAIN d \cup DOMAIN f |-> IF k \in DOMAIN f THEN f[k] ELSE d[k]]

\* d[key] = value
DictSet(d, key, value) ==
    [k \in DOMAIN d \cup {key} |-> IF k = key THEN value ELSE d[k]]

EmptyDict == [k \in {} |-> None]

---------------------------------------------------------------------------
(* ConsultationEngine._extract_name (lines 454-467) and                    *)
(* _extract_choice_from_text (lines 469-473).                              *)

\* end of the whitespace run that starts at index k (k itself when none)
RECURSIVE SkipSpaces(_, _)
SkipSpaces(s, k) == IF k <= Len(s) /\ IsSpace(s[k]) THEN SkipSpaces(s, k + 1) ELSE k

\* end (exclusive) of the \w run that starts at index k
RECURSIVE SkipWord(_, _)
SkipWord(s, k) == IF k <= Len(s) /\ IsWordChar(s[k]) THEN SkipWord(s, k + 1) ELSE k

\* lit, then \s+ (minSpaces = 1) or \s* (minSpaces = 0), then (\w+), tried at
\* index i: <<>> when it does not match there, else <<group 1>>
MatchAt(s, i, lit, minSpaces) ==
    IF ~OccursAt(s, i, lit) THEN <<>>
    ELSE LET k == i + Len(lit)
             w == SkipSpaces(s, k)
             e == SkipWord(s, w)
         IN  IF w - k >= minSpaces /\ e > w THEN <<SubSeq(s, w, e - 1)>> ELSE <<>>

\* the alternatives of one pattern tried in order at index i
RECURSIVE MatchAlternatives(_, _, _, _)
MatchAlternatives(s, i, lits, minSpaces) ==
    IF lits = <<>> THEN <<>>
    ELSE LET m == MatchAt(s, i, Head(lits), minSpaces)
         IN  IF m # <<>> THEN m ELSE MatchAlternatives(s, i, Tail(lits), minSpaces)

\* re.search: the leftmost index at which an alternative matches
RECURSIVE SearchFrom(_, _, _, _)
SearchFrom(s, i, lits, minSpaces) ==
    IF i > Len(s) THEN <<>>
    ELSE LET m == MatchAlternatives(s, i, lits, minSpaces)
         IN  IF m # <<>> THEN m ELSE SearchFrom(s, i + 1, lits, minSpaces)

\* ^(\w+)$ : the whole text is one word ($ also matches before a final newline)
SingleWord(s) ==
    LET body == IF s # <<>> /\ s[Len(s)] = "\n" THEN SubSeq(s, 1, Len(s) - 1) ELSE s
    IN  IF body # <<>> /\ \A i \in DOMAIN body : IsWordChar(body[i])
        THEN <<body>> ELSE <<>>

\* _extract_name on a str: <<>> for None, else <<the name>>
extract_name(text) ==
    LET low == Lower(text)
        m1 == SearchFrom(low, 1, <<S_my_name_is, S_i_am, S_i_m, S_call_me>>, 1)
        m2 == SearchFrom(low, 1, <<S_name_is, S_name_colon>>, 0)
        m3 == SingleWord(low)
        m == IF m1 # <<>> THEN m1 ELSE IF m2 # <<>> THEN m2 ELSE m3
    IN  IF m = <<>> THEN <<>> ELSE <<Title(m[1])>>

\* re.search(r'[123]', text): 0 for None, else the first of the digits 1, 2, 3
RECURSIVE FirstChoice(_, _)
FirstChoice(s, i) ==
    IF i > Len(s) THEN 0
    ELSE IF s[i] \in {"1", "2", "3"} THEN IndexIn(s[i], Digits) - 1
    ELSE FirstChoice(s, i + 1)

extract_choice_from_text(text) == FirstChoice(text, 1)

---------------------------------------------------------------------------
(* src/consultation_engine.py: ConsultationSession, ASSESSMENT_QUESTIONS   *)
(* and the ConsultationEngine handlers.  A handler is an operator from the *)
(* session before the call to [session: the session after it, response:    *)
(* the dict it returns]; response.raised says that the call raised.        *)

\* faulty variant: the second question keyed to choice 2 like the others
MutASSESSMENT_QUESTIONS ==
    << [id |-> "q1", options |-> 3, correct_answer |-> 2],
       [id |-> "q2", options |-> 3, correct_answer |-> 2],
       [id |-> "q3", options |-> 3, correct_answer |-> 2],
       [id |-> "q4", options |-> 3, correct_answer |-> 2],
       [id |-> "q5", options |-> 3, correct_answer |-> 2] >>

\* ASSESSMENT_QUESTIONS (lines 510-561), the fields the engine reads
ASSESSMENT_QUESTIONS ==
    << [id |-> "q1", options |-> 3, correct_answer |-> 2],
       [id |-> "q2", options |-> 3, correct_answer |-> 1],
       [id |-> "q3", options |-> 3, correct_answer |-> 2],
       [id |-> "q4", options |-> 3, correct_answer |-> 2],
       [id |-> "q5", options |-> 3, correct_answer |-> 2] >>

\* faulty variant: a new session started in stage basic_info
MutConsultationSession(session_id) ==
    [ session_id |-> session_id,
      stage |-> "basic_info",
      data |-> EmptyDict,
      current_question |-> 0,
      assessment_answers |-> <<>>,
      assessment_results |-> <<>>,
      assessed_level |-> None ]

\* ConsultationSession.__init__ (lines 498-505)
ConsultationSession(session_id) ==
    [ session_id |-> session_id,
      stage |-> "welcome",
      data |-> EmptyDict,
      current_question |-> 0,
      assessment_answers |-> <<>>,
      assessment_results |-> <<>>,      \* {} is <<>>, a filled dict is <<record>>
      assessed_level |-> None ]

\* the fields of a returned dict that the properties read
Response(stage) ==
    [ raised |-> FALSE,
      stage |-> stage,
      question_num |-> 0,        \* ui_elements.progress.current, 0 when absent
      prompt |-> FALSE,          \* whether error_message prefixes the question
      error |-> "",              \* the message of an error response
      score |-> <<>>,            \* ui_elements.score, <<>> when absent
      courses |-> <<>> ]         \* the ids of ui_elements.courses, <<>> when absent

\* an exception that leaves handle_message
Raise == [Response("none") EXCEPT !.raised = TRUE]

Result(session, response) == [session |-> session, response |-> response]

\* json.loads on the request strings of the model: only FormJson is a JSON
\* document that is an object; a JSON number loads as a number; any other
\* text raises (ok = FALSE)
FormJsonText ==
    <<"{", "\"", "n", "a", "m", "e", "\"", ":", "\"", " ", "A", "l", "e", "x", " ", "\"", "}">>

JsonLoads(text) ==
    IF text = FormJsonText
    THEN [ok |-> TRUE, val |-> Dict([k \in {"name"} |-> Str(<<" ", "A", "l", "e", "x", " ">>)])]
    ELSE IF IntParse(text).ok /\ Head(Strip(text)) # "+"
    THEN [ok |-> TRUE, val |-> Other]
    ELSE [ok |-> FALSE, val |-> None]

\* form_data = json.loads(user_input) if isinstance(user_input, str) else user_input
FormData(user_input) ==
    IF IsStr(user_input) THEN JsonLoads(user_input.v) ELSE [ok |-> TRUE, val |-> user_input]

\* percentage = int((correct_count / total_questions) * 100) if total_questions > 0 else 0
\* (line 308).  The float product truncates to floor(100 * c / t) for every
\* 0 <= c <= t <= 11, which covers the five questions.
Percentage(correct_count, total_questions) ==
    IF total_questions > 0 THEN (correct_count * 100) \div total_questions ELSE 0

\* faulty variant: the thresholds compared with > instead of >=
MutLevelOf(percentage) ==
    IF percentage > 80 THEN S_advanced
    ELSE IF percentage > 60 THEN S_intermediate
    ELSE S_beginner

\* lines 311-316
LevelOf(percentage) ==
    IF percentage >= 80 THEN S_advanced
    ELSE IF percentage >= 60 THEN S_intermediate
    ELSE S_beginner

\* faulty variant: the reported stage 'assessment_complete' is also stored
MutCompleteAssessment(session) ==
    LET correct_count ==
            Cardinality({i \in DOMAIN session.assessment_answers :
                            session.assessment_answers[i].correct})
        total_questions == Len(session.assessment_answers)
        percentage == Percentage(correct_count, total_questions)
        level == LevelOf(percentage)
        results == [correct |-> correct_count, total |-> total_questions,
                    percentage |-> percentage, level |-> level]
    IN  Result([session EXCEPT !.assessed_level = Str(level),
                               !.assessment_results = <<results>>,
                               !.stage = "assessment_complete"],
               [Response("assessment_complete") EXCEPT !.score = <<results>>])

\* _complete_assessment (lines 304-350)
complete_assessment(session) ==
    LET correct_count ==
            Cardinality({i \in DOMAIN session.assessment_answers :
                            session.assessment_answers[i].correct})
        total_questions == Len(session.assessment_answers)
        percentage == Percentage(correct_count, total_questions)
        level == LevelOf(percentage)
        results == [correct |-> correct_count, total |-> total_questions,
                    percentage |-> percentage, level |-> level]
    IN  Result([session EXCEPT !.assessed_level = Str(level),
                               !.assessment_results = <<results>>,
                               !.stage = "recommendations"],
               [Response("assessment_complete") EXCEPT !.score = <<results>>])

\* faulty variant: the end of the assessment tested with > instead of >=
MutGetAssessmentQuestion(session, error_message) ==
    IF session.current_question > Len(ASSESSMENT_QUESTIONS)
    THEN complete_assessment(session)
    ELSE Result(session,
                [Response("assessment_active") EXCEPT
                    !.question_num = session.current_question + 1,
                    !.prompt = error_message])

\* _get_assessment_question (lines 246-285)
get_assessment_question(session, error_message) ==
    IF session.current_question >= Len(ASSESSMENT_QUESTIONS)
    THEN complete_assessment(session)
    ELSE Result(session,
                [Response("assessment_active") EXCEPT
                    !.question_num = session.current_question + 1,
                    !.prompt = error_message])

\* _process_assessment_answer (lines 287-302); ASSESSMENT_QUESTIONS[i] raises
\* IndexError for i >= len
process_assessment_answer(choice, session) ==
    IF session.current_question >= Len(ASSESSMENT_QUESTIONS)
    THEN Result(session, Raise)
    ELSE LET question == ASSESSMENT_QUESTIONS[session.current_question + 1]
             is_correct == choice = question.correct_answer
             answer == [question |-> session.current_question,
                        choice |-> choice,
                        correct |-> is_correct]
         IN  get_assessment_question(
                 [session EXCEPT
                     !.assessment_answers = Append(@, answer),
                     !.current_question = @ + 1],
                 FALSE)

\* course_catalog (lines 408-450): level -> the ids of its courses
course_catalog ==
    [level \in {S_beginner, S_intermediate, S_advanced} |->
        CASE level = S_beginner -> <<"beg001", "beg002">>
          [] level = S_intermediate -> <<"int001", "int002">>
          [] level = S_advanced -> <<"adv001">>]

\* level = session.assessed_level or session.data.get('level', 'intermediate')
\* (lines 359 and 404)
LevelFor(session) ==
    IF Truthy(session.assessed_level) THEN session.assessed_level
    ELSE DictGet(session.data, "level", Str(S_intermediate))

\* faulty variant: no fallback to the intermediate list
MutGenerateCourseRecommendations(session) ==
    LET level == LevelFor(session)
    IN  IF IsStr(level) /\ level.v \in DOMAIN course_catalog
        THEN course_catalog[level.v]
        ELSE <<>>

\* _generate_course_recommendations (lines 402-452), for a level that can be
\* hashed: course_catalog.get(level, course_catalog['intermediate'])
generate_course_recommendations(session) ==
    LET level == LevelFor(session)
    IN  IF IsStr(level) /\ level.v \in DOMAIN course_catalog
        THEN course_catalog[level.v]
        ELSE course_catalog[S_intermediate]

\* _create_recommendations_response (lines 356-400); course_catalog.get(level)
\* raises TypeError for a level that cannot be hashed (a list or a dict)
create_recommendations_response(session) ==
    IF ~Hashable(LevelFor(session))
    THEN Result(session, Raise)
    ELSE Result(session,
                [Response("recommendations") EXCEPT
                    !.courses = generate_course_recommendations(session)])

\* _create_error_response (lines 475-492)
create_error_response(message) == [Response("error") EXCEPT !.error = message]

\* _create_assessment_intro_response (lines 172-203)
create_assessment_intro_response(session) ==
    Result(session, Response("assessment_intro"))

\* _create_basic_info_response (lines 119-170)
create_basic_info_response(session) ==
    LET needs_age == "age_range" \notin DOMAIN session.data
        needs_level == "level" \notin DOMAIN session.data
    IN  IF needs_age \/ needs_level
        THEN Result(session, Response("basic_info"))
        ELSE create_assessment_intro_response(
                 [session EXCEPT !.stage = "assessment_intro"])

\* _handle_welcome (lines 43-85)
handle_welcome(user_input, session, action_type) ==
    LET show_form == Result(session, Response("welcome"))
    IN  IF action_type = "form_submit"
        THEN LET fd == FormData(user_input)
                 \* the try block reaches its return only for a dict whose
                 \* 'name' is a str that is not blank; every exception is swallowed
                 named == /\ fd.ok
                          /\ IsDict(fd.val)
                          /\ "name" \in DOMAIN fd.val.v
                          /\ IsStr(fd.val.v["name"])
                          /\ Strip(fd.val.v["name"].v) # <<>>
             IN  IF named
                 THEN create_basic_info_response(
                          [session EXCEPT
                              !.data = DictSet(@, "name", Str(Strip(fd.val.v["name"].v))),
                              !.stage = "basic_info"])
                 ELSE show_form
        ELSE IF action_type = "text"
        THEN IF ~IsStr(user_input)
             THEN Result(session, Raise)          \* text.lower() on a non-str
             ELSE LET extracted == extract_name(user_input.v)
                  IN  IF extracted # <<>>
                      THEN create_basic_info_response(
                               [session EXCEPT
                                   !.data = DictSet(@, "name", Str(extracted[1])),
                                   !.stage = "basic_info"])
                      ELSE show_form
        ELSE show_form

\* faulty variant: the except branch also stores the 'error' stage
MutInvalidFormData(session) ==
    Result([session EXCEPT !.stage = "error"], create_error_response("Invalid form data"))

\* the except branch of _handle_basic_info (lines 99-100)
InvalidFormData(session) == Result(session, create_error_response("Invalid form data"))

\* _handle_basic_info (lines 88-117)
handle_basic_info(user_input, session, action_type) ==
    IF action_type = "form_submit"
    THEN LET fd == FormData(user_input)
         IN  IF fd.ok /\ IsDict(fd.val)
             THEN create_assessment_intro_response(
                      [session EXCEPT !.data = DictUpdate(@, fd.val.v),
                                      !.stage = "assessment_intro"])
             ELSE \* json.loads or dict.update raised
                  InvalidFormData(session)
    ELSE IF action_type = "button_click"
    THEN IF ~IsStr(user_input)
         THEN Result(session, Raise)              \* startswith on a non-str
         ELSE LET data ==
                      IF StartsWith(user_input.v, S_age_)
                      THEN DictSet(session.data, "age_range",
                                   Str(RemoveAll(user_input.v, S_age_)))
                      ELSE IF StartsWith(user_input.v, S_level_)
                      THEN DictSet(session.data, "level",
                                   Str(RemoveAll(user_input.v, S_level_)))
                      ELSE session.data
                  s1 == [session EXCEPT !.data = data]
              IN  IF "age_range" \in DOMAIN data /\ "level" \in DOMAIN data
                  THEN create_assessment_intro_response(
                           [s1 EXCEPT !.stage = "assessment_intro"])
                  ELSE create_basic_info_response(s1)
    ELSE create_basic_info_response(session)

\* any(word in user_input.lower() for word in words)
AnyWordIn(text, words) == \E i \in DOMAIN words : Contains(Lower(text), words[i])

\* faulty variant: the assessment started at question index 1
MutStartAssessment(session) ==
    get_assessment_question(
        [session EXCEPT !.stage = "assessment_active", !.current_question = 1], FALSE)

\* lines 209-211 and 219-221
StartAssessment(session) ==
    get_assessment_question(
        [session EXCEPT !.stage = "assessment_active", !.current_question = 0], FALSE)

\* faulty variant: the skip ignores the self-reported level
MutSkipAssessment(session) ==
    create_recommendations_response(
        [session EXCEPT
            !.stage = "recommendations",
            !.assessed_level = Str(S_intermediate)])

\* lines 213-215 and 223-225
SkipAssessment(session) ==
    create_recommendations_response(
        [session EXCEPT
            !.stage = "recommendations",
            !.assessed_level = DictGet(session.data, "level", Str(S_intermediate))])

\* _handle_assessment_intro (lines 205-227)
handle_assessment_intro(user_input, session, action_type) ==
    IF action_type = "button_click" /\ EqStr(user_input, S_start_assessment)
    THEN StartAssessment(session)
    ELSE IF action_type = "button_click" /\ EqStr(user_input, S_skip_assessment)
    THEN SkipAssessment(session)
    ELSE IF ~IsStr(user_input)
    THEN Result(session, Raise)                   \* user_input.lower() on a non-str
    ELSE IF AnyWordIn(user_input.v, <<S_start, S_begin, S_yes, S_ready>>)
    THEN StartAssessment(session)
    ELSE IF AnyWordIn(user_input.v, <<S_skip, S_no, S_later>>)
    THEN SkipAssessment(session)
    ELSE create_assessment_intro_response(session)

\* _handle_assessment_question (lines 229-244)
handle_assessment_question(user_input, session, action_type) ==
    IF ~IsStr(user_input)
    THEN Result(session, Raise)                   \* startswith / re.search on a non-str
    ELSE IF action_type = "button_click" /\ StartsWith(user_input.v, S_answer_)
    THEN LET parsed == IntParse(RemoveAll(user_input.v, S_answer_))
         IN  IF parsed.ok
             THEN process_assessment_answer(parsed.val, session)
             ELSE Result(session, Raise)          \* int() raised ValueError
    ELSE LET choice == extract_choice_from_text(user_input.v)
         IN  IF choice # 0
             THEN process_assessment_answer(choice, session)
             ELSE get_assessment_question(session, TRUE)

\* faulty variant: any message in stage recommendations restarts the consultation
MutHandleRecommendations(user_input, session, action_type) ==
    Result([session EXCEPT !.stage = "welcome"], Response("welcome"))

\* _handle_recommendations (lines 352-354)
handle_recommendations(user_input, session, action_type) ==
    create_recommendations_response(session)

\* the dispatch of handle_message (lines 23-35) on the stored stage
Dispatch(user_input, session, action_type) ==
    CASE session.stage = "welcome" -> handle_welcome(user_input, session, action_type)
      [] session.stage = "basic_info" -> handle_basic_info(user_input, session, action_type)
      [] session.stage = "assessment_intro" ->
             handle_assessment_intro(user_input, session, action_type)
      [] session.stage = "assessment_active" ->
             handle_assessment_question(user_input, session, action_type)
      [] session.stage = "recommendations" ->
             handle_recommendations(user_input, session, action_type)
      [] OTHER -> Result(session, create_error_response("Invalid session state"))

\* faulty variant: one session shared by every identifier
MutSessionKey(session_id) == "A"

\* get_or_create_session (lines 37-40): the key under which the session of
\* session_id is kept
SessionKey(session_id) == session_id

\* get_or_create_session (lines 37-40): the session map after the call
get_or_create_session(map, session_id) ==
    IF SessionKey(session_id) \notin DOMAIN map
    THEN [k \in DOMAIN map \cup {SessionKey(session_id)} |->
             IF k = SessionKey(session_id) THEN ConsultationSession(session_id) ELSE map[k]]
    ELSE map

\* handle_message (lines 9-35): the session map after the call, and the
\* returned dict
handle_message(map, user_input, session_id, action_type) ==
    LET created == get_or_create_session(map, session_id)
        session == created[SessionKey(session_id)]
        r == Dispatch(user_input, session, action_type)
    IN  [ sessions |-> [created EXCEPT ![SessionKey(session_id)] = r.session],
          response |-> r.response ]

---------------------------------------------------------------------------
(* The requests of the model: (user_input, action_type) pairs a client     *)
(* sends to handle_message.                                                *)

T_my_name_is_alex == <<"M", "y", " ", "n", "a", "m", "e", " ", "i", "s", " ", "a", "l", "e", "x">>
T_hello_there == <<"h", "e", "l", "l", "o", " ", "t", "h", "e", "r", "e">>
T_2 == <<"2">>
T_option_1 == <<"o", "p", "t", "i", "o", "n", " ", "1">>
T_yes_please == <<"Y", "e", "s", " ", "p", "l", "e", "a", "s", "e">>
T_not_now == <<"n", "o", "t", " ", "n", "o", "w">>
T_hmm_ok == <<"h", "m", "m", " ", "o", "k">>
T_7_10 == <<"7", "-", "1", "0">>
T_level_beginner == <<"l", "e", "v", "e", "l", " ", "b", "e", "g", "i", "n", "n", "e", "r">>
B_age_7_10 == <<"a", "g", "e", "_", "7", "-", "1", "0">>
B_level_beginner == <<"l", "e", "v", "e", "l", "_", "b", "e", "g", "i", "n", "n", "e", "r">>
B_level_unsure == <<"l", "e", "v", "e", "l", "_", "u", "n", "s", "u", "r", "e">>
B_answer_2 == <<"a", "n", "s", "w", "e", "r", "_", "2">>
B_answer_7 == <<"a", "n", "s", "w", "e", "r", "_", "7">>
B_answer_x == <<"a", "n", "s", "w", "e", "r", "_", "x">>
B_see_recommendations == <<"s", "e", "e", "_", "r", "e", "c", "o", "m", "m", "e", "n", "d", "a", "t", "i", "o", "n", "s">>
F_not_json == <<"{", "n", "a", "m", "e">>

Request(user_input, action_type) == [user_input |-> user_input, action_type |-> action_type]

Requests ==
    << Request(Str(T_my_name_is_alex), "text"),
       Request(Str(T_hello_there), "text"),
       Request(Str(T_2), "text"),
       Request(Str(T_option_1), "text"),
       Request(Str(T_yes_please), "text"),
       Request(Str(T_not_now), "text"),
       Request(Str(T_hmm_ok), "text"),
       Request(Str(T_7_10), "text"),
       Request(Str(T_level_beginner), "text"),
       Request(None, "text"),
       Request(Str(B_age_7_10), "button_click"),
       Request(Str(B_level_beginner), "button_click"),
       Request(Str(B_level_unsure), "button_click"),
       Request(Str(S_start_assessment), "button_click"),
       Request(Str(S_skip_assessment), "button_click"),
       Request(Str(B_answer_2), "button_click"),
       Request(Str(B_answer_7), "button_click"),
       Request(Str(B_answer_x), "button_click"),
       Request(Str(B_see_recommendations), "button_click"),
       Request(Str(FormJsonText), "form_submit"),
       Request(Str(F_not_json), "form_submit"),
       Request(Dict([k \in {"age_range"} |-> Str(<<"7", "-", "1", "0">>)]), "form_submit"),
       Request(Dict([k \in {"level"} |-> EmptyList]), "form_submit"),
       Request(None, "form_submit") >>

\* the requests of the two-session specification: one way through each stage
FewRequests ==
    << Request(Str(T_my_name_is_alex), "text"),
       Request(Dict([k \in {"age_range"} |-> Str(<<"7", "-", "1", "0">>)]), "form_submit"),
       Request(Str(B_level_beginner), "button_click"),
       Request(Str(S_start_assessment), "button_click"),
       Request(Str(S_skip_assessment), "button_click"),
       Request(Str(T_2), "text"),
       Request(Str(F_not_json), "form_submit") >>

SessionIds == {"A", "B"}

\* a request whose JSON body has no session_id (data.get("session_id") is None)
NoSessionId == ""

NoResponse == Response("none")

\* no /api/consultation request yet
NoRequest == Request(None, "none")

\* no call of search_knowledge_base yet
NoSearch ==
    [knowledge_base |-> <<>>, limit |-> 0, filters |-> <<>>, results |-> <<>>, done |-> FALSE]

\* no /api/chat request yet
NoChat ==
    [status |-> 0, route |-> "none", message |-> None, mode |-> None, category |-> None,
     session_id |-> "", context |-> <<>>, knowledge |-> 0]

\* the answer of handle_consultation for the result r of the engine's call
\* (src/app.py lines 147-154): HTTP 500 when the call raised
jsonify(r) ==
    [sessions |-> r.sessions, response |-> r.response,
     status |-> IF r.response.raised THEN 500 ELSE 200]

\* handle_consultation (src/app.py lines 134-154): the session map after the
\* request, the dict returned by the engine and the HTTP status
handle_consultation(map, message, session_id, action_type) ==
    IF session_id = NoSessionId
    THEN [sessions |-> map, response |-> NoResponse, status |-> 400]
    ELSE jsonify(handle_message(map, message, session_id, action_type))

Stages ==
    <<"welcome", "basic_info", "assessment_intro", "assessment_active",
      "assessment_complete", "recommendations">>

\* position of a stage in the order of the flow; 0 for "none" (nothing reported yet)
StageRank(stage) ==
    IF stage \in Range(Stages) THEN IndexIn(stage, Stages) ELSE 0

---------------------------------------------------------------------------
(* The state machine.                                                      *)

Init ==
    /\ sessions = [k \in {} |-> ConsultationSession("")]
    /\ responses = [k \in SessionIds |-> NoResponse]
    /\ reported = [k \in SessionIds |-> "none"]
    /\ last = [session_id |-> "none", status |-> 0, started |-> "", request |-> NoRequest]
    /\ folder = {}
    /\ processed = {}
    /\ diskKB = <<>>
    /\ appKB = <<>>
    /\ appUp = FALSE
    /\ lastRun = {}
    /\ appCtx = <<>>
    /\ diskCtx = <<>>
    /\ starts = 0
    /\ selected_category = None
    /\ chat = NoChat
    /\ search = NoSearch
    /\ threads = [t \in {} |-> 0]

\* the state after a request answered with r; started is the stage in which a
\* session created by the request was started
Served(session_id, request, r, started) ==
    /\ sessions' = r.sessions
    /\ responses' =
           IF r.status = 400 THEN responses
           ELSE [responses EXCEPT ![session_id] = r.response]
    /\ reported' =
           IF r.status # 200 \/ r.response.stage = "error"
           THEN reported
           ELSE [reported EXCEPT ![session_id] = r.response.stage]
    /\ last' = [session_id |-> session_id, status |-> r.status, started |-> started,
                request |-> request]
    /\ UNCHANGED <<uploadVars, ragVars, otherVars>>

\* one POST /api/consultation with its call
\* consultation_engine.handle_message(message, session_id, action_type)
HandleMessage(session_id, request) ==
    Served(session_id, request,
           handle_consultation(sessions, request.user_input, session_id, request.action_type),
           IF session_id # NoSessionId /\ SessionKey(session_id) \notin DOMAIN sessions
           THEN get_or_create_session(sessions, session_id)[SessionKey(session_id)].stage
           ELSE "")

\* one client, every request of the model; a request without session_id is
\* refused whatever its message
Next ==
    \E session_id \in {"A", NoSessionId}, i \in DOMAIN Requests :
        /\ session_id = NoSessionId => i = 1
        /\ HandleMessage(session_id, Requests[i])

Spec == Init /\ [][Next]_vars

\* two clients, each with its own session identifier
NextTwo == \E sid \in SessionIds, i \in DOMAIN FewRequests : HandleMessage(sid, FewRequests[i])

SpecTwo == Init /\ [][NextTwo]_vars

---------------------------------------------------------------------------
(* Ingestion of the uploads folder: src/app.py, src/process_uploads.py,     *)
(* src/startup_processor.py, src/file_tracker.py, src/chunking.py,         *)
(* src/utils.py, src/rag_inmemory.py.  A knowledge list is a sequence of   *)
(* items [source, category, chunk]; the uuid, the embedding and the        *)
(* timestamp of an item are left out.                                      *)

S_curriculum == <<"c", "u", "r", "r", "i", "c", "u", "l", "u", "m">>
S_pricing == <<"p", "r", "i", "c", "i", "n", "g">>
S_teacher == <<"t", "e", "a", "c", "h", "e", "r">>
S_general == <<"g", "e", "n", "e", "r", "a", "l">>
S_guide == <<"g", "u", "i", "d", "e">>
S_manual == <<"m", "a", "n", "u", "a", "l">>
E_pdf == <<"p", "d", "f">>
E_rtf == <<"r", "t", "f">>
E_txt == <<"t", "x", "t">>
E_docx == <<"d", "o", "c", "x">>

\* the file names of the model
N_a_pdf == <<"a", ".", "p", "d", "f">>
N_pricing_rtf == <<"p", "r", "i", "c", "i", "n", "g", ".", "r", "t", "f">>
N_n_txt == <<"n", ".", "t", "x", "t">>
N_x_exe == <<"x", ".", "e", "x", "e">>

\* the files that can appear in the uploads folder, and the names a client can
\* post to /upload
FolderNames == {N_a_pdf, N_pricing_rtf, N_n_txt}
UploadNames == FolderNames \cup {N_x_exe}

\* the largest knowledge list the model follows
MaxKB == 4

\* the largest number of application starts the model follows
MaxStarts == 2

\* faulty variant: only the knowledge list is dumped
MutSavePersistedData(knowledge_base, context_base) ==
    [knowledge_file |-> knowledge_base, context_file |-> <<>>]

\* InMemoryRAG.save_persisted_data (rag_inmemory.py lines 86-99): the content
\* of the two pickle files after the call
save_persisted_data(knowledge_base, context_base) ==
    [knowledge_file |-> knowledge_base, context_file |-> context_base]

\* InMemoryRAG.load_persisted_data (rag_inmemory.py lines 66-83): the two lists
\* of a new instance; a file that does not exist leaves the list empty
load_persisted_data(knowledge_file, context_file) ==
    [knowledge_base |-> knowledge_file, context_base |-> context_file]

\* the number of non-blank chunks the parsers and the text splitter get from the
\* content of a file (PyMuPDF, UnstructuredRTFLoader, RecursiveCharacterTextSplitter)
ContentChunks(filename) ==
    IF filename = N_a_pdf THEN 2 ELSE 1

\* str.rfind('.'), 1-based, 0 when there is no dot
RFindDot(s) ==
    IF \E i \in DOMAIN s : s[i] = "."
    THEN CHOOSE i \in DOMAIN s : s[i] = "." /\ \A j \in DOMAIN s : s[j] = "." => j <= i
    ELSE 0

\* filename.split('.')[-1] and filename.rsplit('.', 1)[1]
AfterLastDot(s) == SubSeq(s, RFindDot(s) + 1, Len(s))

\* pathlib.Path(filename).suffix
PathSuffix(s) ==
    LET i == RFindDot(s)
    IN  IF 1 < i /\ i < Len(s) THEN SubSeq(s, i, Len(s)) ELSE <<>>

\* os.path.splitext(filename)[1]
SplitExt(s) ==
    LET i == RFindDot(s)
    IN  IF i > 0 /\ \E j \in 1..(i - 1) : s[j] # "."
        THEN SubSeq(s, i, Len(s)) ELSE <<>>

\* ALLOWED_EXTENSIONS and allowed_file (app.py lines 54-56)
ALLOWED_EXTENSIONS == {E_pdf, E_txt, E_docx, E_rtf}

allowed_file(filename) ==
    Contains(filename, <<".">>) /\ Lower(AfterLastDot(filename)) \in ALLOWED_EXTENSIONS

\* supported_extensions (process_uploads.py line 74, startup_processor.py line 86)
supported_extensions == {<<".">> \o e : e \in {E_pdf, E_rtf, E_txt, E_docx}}

\* werkzeug's secure_filename, on the names of the model: they hold only ASCII
\* letters, digits and dots, which it keeps
secure_filename(filename) == filename

\* extract_chunks_from_file (chunking.py lines 129-143): the chunk tuples, as
\* items without an id
extract_chunks_from_file(filename, category) ==
    LET file_extension == AfterLastDot(Lower(filename))
    IN  IF file_extension = E_pdf \/ file_extension = E_rtf
        THEN [i \in 1..ContentChunks(filename) |->
                 [source |-> filename, category |-> category, chunk |-> i]]
        ELSE <<>>

\* InMemoryRAG.add_knowledge_batch (rag_inmemory.py lines 150-184) through
\* store_embeddings_with_metadata (utils.py lines 5-24): the knowledge list
\* after the call
store_embeddings_with_metadata(kb, chunks) == kb \o chunks

\* DEFAULT_CATEGORIES (process_uploads.py lines 22-27)
DEFAULT_CATEGORIES(file_ext) ==
    CASE file_ext = E_pdf -> "Documentation"
      [] file_ext = E_rtf -> "Information"
      [] file_ext = E_txt -> "Text"
      [] file_ext = E_docx -> "Document"
      [] OTHER -> "Documentation"

\* the custom categories of the startup code (app.py lines 38-43) and of
\* process_existing_uploads (startup_processor.py lines 32-39), in dict order
StartupCategories ==
    << <<S_curriculum, "Curriculum">>, <<S_pricing, "Pricing">>,
       <<S_teacher, "Teachers">>, <<S_general, "General Information">> >>

ManualCategories ==
    StartupCategories \o << <<S_guide, "User Guide">>, <<S_manual, "User Guide">> >>

\* get_file_category (process_uploads.py lines 29-62)
RECURSIVE FirstPattern(_, _)
FirstPattern(filename_lower, patterns) ==
    IF patterns = <<>> THEN ""
    ELSE IF Contains(filename_lower, Lower(Head(patterns)[1])) THEN Head(patterns)[2]
    ELSE FirstPattern(filename_lower, Tail(patterns))

get_file_category(filename, custom_categories) ==
    LET filename_lower == Lower(filename)
        custom == FirstPattern(filename_lower, custom_categories)
        builtin == FirstPattern(filename_lower, ManualCategories)
    IN  IF custom # "" THEN custom
        ELSE IF builtin # "" THEN builtin
        ELSE DEFAULT_CATEGORIES(Lower(AfterLastDot(filename)))

\* should_process_uploads (startup_processor.py lines 63-97); the uploads
\* folder exists once the application has started (app.py line 26)
should_process_uploads(files, done) ==
    \E filename \in files :
        Lower(SplitExt(filename)) \in supported_extensions /\ filename \notin done

\* scan_uploads_folder (process_uploads.py lines 64-102): the names found
scan_uploads_folder(files, done) ==
    {filename \in files :
        /\ Head(filename) # "."
        /\ Lower(PathSuffix(filename)) \in supported_extensions
        /\ filename \notin done}

\* process_file (process_uploads.py lines 104-143) with mark_file_processed
\* (file_tracker.py lines 22-32): the knowledge list of rag_system and the
\* processed-files list after the call, and the returned flag
process_file(filename, category, kb, done) ==
    LET chunks == extract_chunks_from_file(filename, category)
    IN  IF chunks = <<>>
        THEN [kb |-> kb, done |-> done, success |-> FALSE]
        ELSE [kb |-> store_embeddings_with_metadata(kb, chunks),
              done |-> done \cup {filename}, success |-> TRUE]

\* the loop "for file_path, filename in files_to_process" (app.py lines 37-48,
\* process_uploads.py lines 189-203) over the files in the order os.listdir gave
RECURSIVE ProcessAll(_, _, _, _, _)
ProcessAll(order, custom_categories, kb, done, succeeded) ==
    IF order = <<>>
    THEN [kb |-> kb, done |-> done, succeeded |-> succeeded]
    ELSE LET filename == Head(order)
             r == process_file(filename, get_file_category(filename, custom_categories),
                               kb, done)
         IN  ProcessAll(Tail(order), custom_categories, r.kb, r.done,
                        IF r.success THEN succeeded \cup {filename} ELSE succeeded)

\* the orders in which os.listdir can give the files of a set
Orders(files) ==
    {order \in [1..Cardinality(files) -> files] :
        \A i, j \in DOMAIN order : i # j => order[i] # order[j]}

\* the placement of a file into the uploads folder outside the application
\* (the "existing files" of app.py line 28)
PlaceFile(filename) ==
    /\ filename \notin folder
    /\ folder' = folder \cup {filename}
    /\ UNCHANGED <<processed, diskKB, appKB, appUp, lastRun>>
    /\ UNCHANGED <<consultVars, ragVars, otherVars>>

\* the import of app.py (lines 19-52): rag = InMemoryRAG() loads the pickled
\* lists and draws a new current_session_id, then the startup processing adds
\* the unprocessed files to rag
AppStart ==
    /\ ~appUp
    /\ starts < MaxStarts
    /\ appUp' = TRUE
    /\ starts' = starts + 1
    /\ appCtx' = load_persisted_data(diskKB, diskCtx).context_base
    /\ selected_category' = None
    /\ UNCHANGED <<diskCtx, chat>>
    /\ IF should_process_uploads(folder, processed)
       THEN \E order \in Orders(scan_uploads_folder(folder, processed)) :
                LET r == ProcessAll(order, StartupCategories,
                                    load_persisted_data(diskKB, diskCtx).knowledge_base,
                                    processed, {})
                IN  /\ Len(r.kb) <= MaxKB
                    /\ appKB' = r.kb
                    /\ diskKB' = r.kb
                    /\ processed' = r.done
       ELSE /\ appKB' = load_persisted_data(diskKB, diskCtx).knowledge_base
            /\ UNCHANGED <<diskKB, processed>>
    /\ UNCHANGED <<folder, lastRun>>
    /\ UNCHANGED <<consultVars, otherVars>>

\* the end of the application process: its in-memory lists and sessions are lost
AppStop ==
    /\ appUp
    /\ appUp' = FALSE
    /\ appKB' = <<>>
    /\ lastRun' = {}
    /\ sessions' = [k \in {} |-> ConsultationSession("")]
    /\ appCtx' = <<>>
    /\ selected_category' = None
    /\ UNCHANGED <<folder, processed, diskKB, responses, reported, last>>
    /\ UNCHANGED <<diskCtx, starts, chat, otherVars>>

\* POST /upload (app.py lines 74-99)
Upload(client_filename, category) ==
    /\ appUp
    /\ IF ~allowed_file(client_filename) \/ category = ""
       THEN UNCHANGED <<folder, appKB, diskKB, diskCtx>>            \* HTTP 400
       ELSE LET filename == secure_filename(client_filename)
                chunks == extract_chunks_from_file(filename, category)
            IN  /\ folder' = folder \cup {filename}
                /\ IF chunks = <<>>
                   THEN UNCHANGED <<appKB, diskKB, diskCtx>>
                   ELSE /\ Len(appKB) + Len(chunks) <= MaxKB
                        /\ appKB' = store_embeddings_with_metadata(appKB, chunks)
                        /\ diskKB' = save_persisted_data(appKB', appCtx).knowledge_file
                        /\ diskCtx' = save_persisted_data(appKB', appCtx).context_file
    /\ UNCHANGED <<processed, appUp, lastRun>>
    /\ UNCHANGED <<appCtx, starts, selected_category, chat>>
    /\ UNCHANGED <<consultVars, otherVars>>

\* process_uploads_folder with dry_run = False (process_uploads.py lines
\* 145-214): a new InMemoryRAG loads the pickled list, the unprocessed files are
\* added to it, and it is pickled again; the names processed and the pickled list
ProcessUploadsFolder(order, custom_categories) ==
    ProcessAll(order, custom_categories, diskKB, processed, {})

\* POST /api/process-uploads (app.py lines 216-226) through
\* process_existing_uploads (startup_processor.py lines 12-60)
ProcessUploadsRoute ==
    /\ appUp
    /\ \E order \in Orders(scan_uploads_folder(folder, processed)) :
           LET r == ProcessUploadsFolder(order, ManualCategories)
           IN  /\ Len(r.kb) <= MaxKB
               /\ diskKB' = r.kb
               /\ processed' = r.done
               /\ lastRun' = r.succeeded
    /\ UNCHANGED <<folder, appKB, appUp>>
    /\ UNCHANGED <<consultVars, ragVars, otherVars>>

\* python process_uploads.py / python startup_processor.py, beside the
\* application or without it
ProcessUploadsScript ==
    /\ \E order \in Orders(scan_uploads_folder(folder, processed)) :
           LET r == ProcessUploadsFolder(order, <<>>)
           IN  /\ Len(r.kb) <= MaxKB
               /\ diskKB' = r.kb
               /\ processed' = r.done
    /\ UNCHANGED <<folder, appKB, appUp, lastRun>>
    /\ UNCHANGED <<consultVars, ragVars, otherVars>>

NextUploads ==
    \/ \E filename \in FolderNames : PlaceFile(filename)
    \/ AppStart
    \/ AppStop
    \/ \E filename \in UploadNames, category \in {"", "General"} : Upload(filename, category)
    \/ ProcessUploadsRoute
    \/ ProcessUploadsScript

SpecUploads == Init /\ [][NextUploads]_vars

---------------------------------------------------------------------------
(* src/rag_inmemory.py: search_knowledge_base, the conversation context and *)
(* generate_agentic_response; src/app.py: /api/chat and /api/clear.  The    *)
(* embedding of a text and its cosine similarity to a query come from the   *)
(* embeddings API: the similarity is data of the model (an item's           *)
(* relevance), an exception of the API is an input of the request.          *)

S_faq == <<"f", "a", "q">>
S_FAQ == <<"F", "A", "Q">>
S_Consultation == <<"C", "o", "n", "s", "u", "l", "t", "a", "t", "i", "o", "n">>
S_Pricing == <<"P", "r", "i", "c", "i", "n", "g">>

\* insertion of x behind the items of a list sorted by non-increasing relevance
\* that are at least as relevant as x
RECURSIVE InsertByRelevance(_, _)
InsertByRelevance(sorted, x) ==
    IF sorted = <<>> THEN <<x>>
    ELSE IF Head(sorted).relevance >= x.relevance
    THEN <<Head(sorted)>> \o InsertByRelevance(Tail(sorted), x)
    ELSE <<x>> \o sorted

\* results.sort(key=lambda x: x['relevance'], reverse=True): a stable sort,
\* equally relevant items keep their order
RECURSIVE SortByRelevance(_)
SortByRelevance(results) ==
    IF results = <<>> THEN <<>>
    ELSE InsertByRelevance(SortByRelevance(SubSeq(results, 1, Len(results) - 1)),
                           results[Len(results)])

\* results[:limit]
Slice(results, limit) ==
    IF limit >= 0
    THEN SubSeq(results, 1, IF limit < Len(results) THEN limit ELSE Len(results))
    ELSE SubSeq(results, 1, Len(results) + limit)

\* a filter value: a scalar, or a list of admitted values
FilterValue(value) == [list |-> FALSE, v |-> <<value>>]
FilterList(values) == [list |-> TRUE, v |-> values]

\* the filter loop of search_knowledge_base (lines 203-216) for one item
MatchesFilters(metadata, filters) ==
    \A key \in DOMAIN filters :
        /\ key \in DOMAIN metadata
        /\ IF filters[key].list
           THEN \E i \in DOMAIN filters[key].v : metadata[key] = filters[key].v[i]
           ELSE metadata[key] = filters[key].v[1]

\* faulty variant: the results are cut before they are sorted
MutSearchKnowledgeBase(knowledge_base, limit, filters) ==
    LET filtered_items ==
            IF DOMAIN filters # {}
            THEN SelectSeq(knowledge_base, LAMBDA item : MatchesFilters(item.metadata, filters))
            ELSE knowledge_base
    IN  SortByRelevance(Slice(filtered_items, limit))

\* InMemoryRAG.search_knowledge_base (lines 187-240); an item is
\* [id, metadata, relevance], relevance being the cosine similarity of its
\* embedding to the embedding of the query; filters None is the empty dict
search_knowledge_base(knowledge_base, limit, filters) ==
    LET filtered_items ==
            IF DOMAIN filters # {}
            THEN SelectSeq(knowledge_base, LAMBDA item : MatchesFilters(item.metadata, filters))
            ELSE knowledge_base
    IN  IF knowledge_base = <<>> THEN <<>>
        ELSE IF filtered_items = <<>> THEN <<>>
        ELSE Slice(SortByRelevance(filtered_items), limit)

\* the largest context list the model follows
MaxCtx == 2

\* the uuid drawn by the n-th InMemoryRAG of the application
Uuid(n) == ToString(n)

\* the similarity of a saved exchange to a query: the largest for the exchange
\* of the same text
Similarity(query, user_input) == IF query = user_input THEN 2 ELSE 1

\* InMemoryRAG.save_context (lines 242-276), when the embedding is obtained:
\* the context list after the call.  request_session is not a field of the
\* entry: it records the session_id of the request that made the call.
save_context(context_base, user_input, response, current_session_id, request_session) ==
    IF ~Truthy(user_input) \/ response = ""
    THEN context_base
    ELSE Append(context_base,
                [session_id |-> current_session_id,
                 user_input |-> user_input,
                 request_session |-> request_session])

\* the contexts of the current session (lines 284-285)
SessionContexts(context_base, current_session_id) ==
    SelectSeq(context_base, LAMBDA ctx : ctx.session_id = current_session_id)

\* InMemoryRAG.get_relevant_context (lines 278-313): the entries returned
get_relevant_context(context_base, current_session_id, query, limit) ==
    LET session_contexts == SessionContexts(context_base, current_session_id)
        results == [i \in DOMAIN session_contexts |->
                       [ctx |-> session_contexts[i],
                        relevance |-> Similarity(query, session_contexts[i].user_input)]]
        top == Slice(SortByRelevance(results), limit)
    IN  [i \in DOMAIN top |-> top[i].ctx]

\* a category text, as the knowledge items of the model name their category
CategoryName(text) == IF text = S_Pricing THEN "Pricing" ELSE "Other"

\* the knowledge items of the application as search_knowledge_base reads them
KnowledgeItems(kb) ==
    [i \in DOMAIN kb |->
        [id |-> i,
         metadata |-> [key \in {"category"} |-> kb[i].category],
         relevance |-> 1]]

\* the outcomes of the OpenAI API during a request: both calls answer; the chat
\* completion is the empty text; the embeddings call raises; every call raises
OpenAIOutcomes == {"ok", "empty", "no_embeddings", "down"}

\* POST /api/chat (src/app.py lines 107-131) with
\* InMemoryRAG.generate_agentic_response (lines 335-348) and
\* generate_agentic_response_faq (lines 362-413); session_id NoSessionId is a
\* body without session_id
ApiChat(message, category, mode, session_id, openai) ==
    LET current_session_id == Uuid(starts)
        sid == IF session_id = NoSessionId THEN current_session_id ELSE session_id
        answered(status, route, context, knowledge) ==
            [status |-> status, route |-> route, message |-> message, mode |-> mode,
             category |-> category, session_id |-> sid, context |-> context,
             knowledge |-> knowledge]
        category_now == IF category # None THEN category ELSE selected_category
        session_contexts == SessionContexts(appCtx, current_session_id)
        context_history == get_relevant_context(appCtx, current_session_id, message, 3)
        filters == IF Truthy(category_now)
                   THEN [key \in {"category"} |-> FilterValue(CategoryName(category_now.v))]
                   ELSE [key \in {} |-> FilterValue("")]
        knowledge_items == search_knowledge_base(KnowledgeItems(appKB), 5, filters)
        embeds == session_contexts # <<>> \/ appKB # <<>>
        response == IF openai = "empty" THEN "" ELSE "answer"
        saved == IF openai = "no_embeddings" THEN appCtx
                 ELSE save_context(appCtx, message, response, current_session_id, sid)
    IN  /\ appUp
        /\ IF ~Truthy(message) \/ ~Truthy(mode) \/ (EqStr(mode, S_faq) /\ ~Truthy(category))
           THEN /\ chat' = answered(400, "none", <<>>, 0)
                /\ UNCHANGED <<appCtx, diskCtx, diskKB, selected_category>>
           ELSE IF EqStr(mode, S_Consultation)
           THEN \* consultation_engine is no name of rag_inmemory.py: NameError
                /\ chat' = answered(500, "consultation", <<>>, 0)
                /\ UNCHANGED <<appCtx, diskCtx, diskKB, selected_category>>
           ELSE IF ~EqStr(mode, S_FAQ)
           THEN \* handle_initial_selection
                /\ chat' = answered(200, "initial", <<>>, 0)
                /\ UNCHANGED <<appCtx, diskCtx, diskKB, selected_category>>
           ELSE /\ selected_category' = category_now
                /\ IF openai = "down" \/ (openai = "no_embeddings" /\ embeds)
                   THEN /\ chat' = answered(500, "faq", <<>>, 0)
                        /\ UNCHANGED <<appCtx, diskCtx, diskKB>>
                   ELSE /\ chat' = answered(200, "faq", context_history, Len(knowledge_items))
                        /\ Len(saved) <= MaxCtx
                        /\ appCtx' = saved
                        /\ IF saved # appCtx
                           THEN /\ diskKB' = save_persisted_data(appKB, saved).knowledge_file
                                /\ diskCtx' = save_persisted_data(appKB, saved).context_file
                           ELSE UNCHANGED <<diskKB, diskCtx>>
        /\ UNCHANGED <<folder, processed, appKB, appUp, lastRun, starts>>
        /\ UNCHANGED <<consultVars, otherVars>>

\* InMemoryRAG.clear_knowledge_base (lines 544-547): the lists and files after
clear_knowledge_base(appKB_, appCtx_, diskKB_, diskCtx_) ==
    [appKB |-> <<>>, appCtx |-> appCtx_,
     diskKB |-> save_persisted_data(<<>>, appCtx_).knowledge_file,
     diskCtx |-> save_persisted_data(<<>>, appCtx_).context_file]

\* InMemoryRAG.clear_context (lines 550-554): the lists and files after
clear_context(appKB_, appCtx_, diskKB_, diskCtx_) ==
    [appKB |-> appKB_, appCtx |-> <<>>,
     diskKB |-> save_persisted_data(appKB_, <<>>).knowledge_file,
     diskCtx |-> save_persisted_data(appKB_, <<>>).context_file]

\* POST /api/clear (src/app.py lines 197-214)
ClearData(clear_type) ==
    /\ appUp
    /\ LET r == IF clear_type = "knowledge"
                THEN clear_knowledge_base(appKB, appCtx, diskKB, diskCtx)
                ELSE IF clear_type = "context"
                THEN clear_context(appKB, appCtx, diskKB, diskCtx)
                ELSE [appKB |-> appKB, appCtx |-> appCtx,          \* HTTP 400
                      diskKB |-> diskKB, diskCtx |-> diskCtx]
       IN  /\ appKB' = r.appKB
           /\ appCtx' = r.appCtx
           /\ diskKB' = r.diskKB
           /\ diskCtx' = r.diskCtx
    /\ UNCHANGED <<folder, processed, appUp, lastRun, starts, selected_category, chat>>
    /\ UNCHANGED <<consultVars, otherVars>>

\* InMemoryRAG.add_knowledge (lines 124-147) on the application's instance;
\* blank content raises ValueError before anything is changed
AddKnowledge(content, category) ==
    /\ appUp
    /\ Len(appKB) < MaxKB
    /\ IF Strip(content) = <<>>
       THEN UNCHANGED <<appKB, diskKB, diskCtx>>
       ELSE /\ appKB' = Append(appKB, [source |-> content, category |-> category, chunk |-> 0])
            /\ diskKB' = save_persisted_data(appKB', appCtx).knowledge_file
            /\ diskCtx' = save_persisted_data(appKB', appCtx).context_file
    /\ UNCHANGED <<folder, processed, appUp, lastRun>>
    /\ UNCHANGED <<appCtx, starts, selected_category, chat>>
    /\ UNCHANGED <<consultVars, otherVars>>

\* the items add_knowledge_batch appends for its tuples (lines 156-178): one
\* for each content that is not blank
add_knowledge_batch(knowledge_base, contents, category) ==
    LET kept == SelectSeq(contents, LAMBDA content : Strip(content) # <<>>)
    IN  knowledge_base \o
            [i \in DOMAIN kept |-> [source |-> kept[i], category |-> category, chunk |-> 0]]

\* InMemoryRAG.add_knowledge_batch (lines 150-184) on the application's
\* instance; nothing is saved when no content is left
AddKnowledgeBatch(contents, category) ==
    /\ appUp
    /\ Len(add_knowledge_batch(appKB, contents, category)) <= MaxKB
    /\ appKB' = add_knowledge_batch(appKB, contents, category)
    /\ IF appKB' = appKB
       THEN UNCHANGED <<diskKB, diskCtx>>
       ELSE /\ diskKB' = save_persisted_data(appKB', appCtx).knowledge_file
            /\ diskCtx' = save_persisted_data(appKB', appCtx).context_file
    /\ UNCHANGED <<folder, processed, appUp, lastRun>>
    /\ UNCHANGED <<appCtx, starts, selected_category, chat>>
    /\ UNCHANGED <<consultVars, otherVars>>

ChatMessages == {None, Str(T_hello_there)}
ChatModes == {None, Str(S_faq), Str(S_FAQ), Str(S_Consultation)}
ChatCategories == {None, Str(S_Pricing)}
ChatSessions == {NoSessionId, "A", "B"}

\* the /api/chat requests of every kind, across restarts of the application
NextChat ==
    \/ AppStart
    \/ AppStop
    \/ \E message \in ChatMessages, category \in ChatCategories, mode \in ChatModes,
          session_id \in ChatSessions, openai \in OpenAIOutcomes :
           ApiChat(message, category, mode, session_id, openai)

SpecChat == Init /\ [][NextChat]_vars

\* the operations of one InMemoryRAG instance that change its lists, across
\* restarts of the application
NextPersist ==
    \/ AppStart
    \/ AppStop
    \/ \E openai \in OpenAIOutcomes :
           ApiChat(Str(T_hello_there), Str(S_Pricing), Str(S_FAQ), "A", openai)
    \/ \E clear_type \in {"knowledge", "context", "other"} : ClearData(clear_type)
    \/ \E content \in {<<" ">>, T_hello_there} : AddKnowledge(content, "Pricing")
    \/ \E contents \in {<<>>, << <<" ">> >>, <<T_hello_there, <<" ">>, T_hello_there>>} :
           AddKnowledgeBatch(contents, "Pricing")

SpecPersist == Init /\ [][NextPersist]_vars

---------------------------------------------------------------------------
(* One call of search_knowledge_base on a knowledge base, a limit and       *)
(* filters drawn from small sets.                                           *)

\* the largest knowledge base searched, the largest relevance and limit
MaxItems == 3
MaxRelevance == 2
MaxLimit == 3

\* the metadata of the items: with a category and a type, with a category,
\* with none
SearchMetadata ==
    { [key \in {"category", "type"} |-> IF key = "category" THEN "Pricing" ELSE "pdf"],
      [key \in {"category"} |-> "Teachers"],
      [key \in {} |-> ""] }

SearchItems == [metadata : SearchMetadata, relevance : 1..MaxRelevance]

\* the filters of a call: none, one scalar, one list, two scalars
SearchFilters ==
    { [key \in {} |-> FilterValue("")],
      [key \in {"category"} |-> FilterValue("Pricing")],
      [key \in {"category"} |-> FilterList(<<"Pricing", "Teachers">>)],
      [key \in {"category", "type"} |->
          IF key = "category" THEN FilterValue("Pricing") ELSE FilterValue("pdf")] }

\* the items of a knowledge base with their position as id
WithIds(items) ==
    [i \in DOMAIN items |->
        [id |-> i, metadata |-> items[i].metadata, relevance |-> items[i].relevance]]

InitSearch ==
    /\ sessions = [k \in {} |-> ConsultationSession("")]
    /\ responses = [k \in SessionIds |-> NoResponse]
    /\ reported = [k \in SessionIds |-> "none"]
    /\ last = [session_id |-> "none", status |-> 0, started |-> "", request |-> NoRequest]
    /\ folder = {}
    /\ processed = {}
    /\ diskKB = <<>>
    /\ appKB = <<>>
    /\ appUp = FALSE
    /\ lastRun = {}
    /\ appCtx = <<>>
    /\ diskCtx = <<>>
    /\ starts = 0
    /\ selected_category = None
    /\ chat = NoChat
    /\ threads = [t \in {} |-> 0]
    /\ \E n \in 0..MaxItems :
       \E items \in [1..n -> SearchItems], limit \in 0..MaxLimit, filters \in SearchFilters :
           search = [knowledge_base |-> WithIds(items), limit |-> limit,
                     filters |-> filters, results |-> <<>>, done |-> FALSE]

\* rag.search_knowledge_base(query, limit, filters)
Search ==
    /\ ~search.done
    /\ search' = [search EXCEPT
                     !.results = search_knowledge_base(search.knowledge_base,
                                                       search.limit, search.filters),
                     !.done = TRUE]
    /\ UNCHANGED <<consultVars, uploadVars, ragVars, threads>>

NextSearch == Search

SpecSearch == InitSearch /\ [][NextSearch]_vars

---------------------------------------------------------------------------
(* Two requests for one session served at the same time (the development    *)
(* server of src/app.py line 238 serves each request in its own thread).    *)
(* The code of _handle_assessment_question, _process_assessment_answer,     *)
(* _get_assessment_question and _complete_assessment is followed one read   *)
(* or write of the session at a time; the session is sessions["A"].         *)

Threads == {1, 2}

IdleThread ==
    [pc |-> "idle", choice |-> 0, correct |-> FALSE, tmp |-> 0,
     correct_count |-> 0, total |-> 0, outcome |-> "none", question_num |-> 0]

\* the session after the name, the age range, the level and the start button
ReadySession ==
    LET s1 == Dispatch(Str(T_my_name_is_alex), ConsultationSession("A"), "text").session
        s2 == Dispatch(Str(B_age_7_10), s1, "button_click").session
        s3 == Dispatch(Str(B_level_beginner), s2, "button_click").session
    IN  Dispatch(Str(S_start_assessment), s3, "button_click").session

\* the session after k more answers of choice 2
RECURSIVE AnsweredSession(_)
AnsweredSession(k) ==
    IF k = 0 THEN ReadySession
    ELSE Dispatch(Str(B_answer_2), AnsweredSession(k - 1), "button_click").session

InitThreads ==
    /\ \E k \in 0..(Len(ASSESSMENT_QUESTIONS) - 1) :
           sessions = [id \in {"A"} |-> AnsweredSession(k)]
    /\ responses = [k \in SessionIds |-> NoResponse]
    /\ reported = [k \in SessionIds |-> "none"]
    /\ last = [session_id |-> "none", status |-> 0, started |-> "", request |-> NoRequest]
    /\ folder = {}
    /\ processed = {}
    /\ diskKB = <<>>
    /\ appKB = <<>>
    /\ appUp = TRUE
    /\ lastRun = {}
    /\ appCtx = <<>>
    /\ diskCtx = <<>>
    /\ starts = 1
    /\ selected_category = None
    /\ chat = NoChat
    /\ search = NoSearch
    /\ threads = [t \in Threads |-> IdleThread]

\* a step of thread t that changes its own record and the session
ThreadStep(t, thread, session) ==
    /\ threads' = [threads EXCEPT ![t] = thread]
    /\ sessions' = [sessions EXCEPT !["A"] = session]
    /\ UNCHANGED <<responses, reported, last, uploadVars, ragVars, search>>

\* handle_message (lines 20-32) for an answer of the session: the dispatch on
\* the stage read; the answer is 'answer_<choice>' or the typed choice
ThreadDispatch(t, choice) ==
    /\ threads[t].pc = "idle"
    /\ IF sessions["A"].stage = "assessment_active"
       THEN ThreadStep(t, [threads[t] EXCEPT !.pc = "read_question", !.choice = choice],
                       sessions["A"])
       ELSE \* _handle_recommendations
            ThreadStep(t, [threads[t] EXCEPT !.pc = "done", !.choice = choice,
                                             !.outcome = "recommendations"],
                       sessions["A"])

\* question = ASSESSMENT_QUESTIONS[session.current_question]; is_correct (lines 290-291)
ThreadReadQuestion(t) ==
    /\ threads[t].pc = "read_question"
    /\ IF sessions["A"].current_question >= Len(ASSESSMENT_QUESTIONS)
       THEN ThreadStep(t, [threads[t] EXCEPT !.pc = "done", !.outcome = "IndexError"],
                       sessions["A"])
       ELSE ThreadStep(t,
                [threads[t] EXCEPT
                    !.pc = "append",
                    !.correct =
                        threads[t].choice =
                            ASSESSMENT_QUESTIONS[sessions["A"].current_question + 1]
                                .correct_answer],
                sessions["A"])

\* session.assessment_answers.append({...}) (lines 293-297)
ThreadAppend(t) ==
    /\ threads[t].pc = "append"
    /\ ThreadStep(t, [threads[t] EXCEPT !.pc = "inc_read"],
                  [sessions["A"] EXCEPT
                      !.assessment_answers =
                          Append(@, [question |-> sessions["A"].current_question,
                                     choice |-> threads[t].choice,
                                     correct |-> threads[t].correct])])

\* session.current_question += 1 (line 299): the read
ThreadIncRead(t) ==
    /\ threads[t].pc = "inc_read"
    /\ ThreadStep(t, [threads[t] EXCEPT !.pc = "inc_write",
                                        !.tmp = sessions["A"].current_question],
                  sessions["A"])

\* session.current_question += 1 (line 299): the write
ThreadIncWrite(t) ==
    /\ threads[t].pc = "inc_write"
    /\ ThreadStep(t, [threads[t] EXCEPT !.pc = "check_end"],
                  [sessions["A"] EXCEPT !.current_question = threads[t].tmp + 1])

\* if session.current_question >= len(ASSESSMENT_QUESTIONS) (line 249)
ThreadCheckEnd(t) ==
    /\ threads[t].pc = "check_end"
    /\ ThreadStep(t,
                  [threads[t] EXCEPT
                      !.pc = IF sessions["A"].current_question >= Len(ASSESSMENT_QUESTIONS)
                             THEN "count" ELSE "next_question"],
                  sessions["A"])

\* question = ASSESSMENT_QUESTIONS[session.current_question] (line 253)
ThreadNextQuestion(t) ==
    /\ threads[t].pc = "next_question"
    /\ IF sessions["A"].current_question >= Len(ASSESSMENT_QUESTIONS)
       THEN ThreadStep(t, [threads[t] EXCEPT !.pc = "done", !.outcome = "IndexError"],
                       sessions["A"])
       ELSE ThreadStep(t, [threads[t] EXCEPT !.pc = "question_num"], sessions["A"])

\* question_num = session.current_question + 1 (line 254) and the returned dict
ThreadQuestionNum(t) ==
    /\ threads[t].pc = "question_num"
    /\ ThreadStep(t, [threads[t] EXCEPT
                         !.pc = "done",
                         !.outcome = "assessment_active",
                         !.question_num = sessions["A"].current_question + 1],
                  sessions["A"])

\* correct_count = sum(...) (line 306)
ThreadCount(t) ==
    /\ threads[t].pc = "count"
    /\ ThreadStep(t,
                  [threads[t] EXCEPT
                      !.pc = "total",
                      !.correct_count =
                          Cardinality({i \in DOMAIN sessions["A"].assessment_answers :
                                          sessions["A"].assessment_answers[i].correct})],
                  sessions["A"])

\* total_questions = len(session.assessment_answers) (line 307)
ThreadTotal(t) ==
    /\ threads[t].pc = "total"
    /\ ThreadStep(t, [threads[t] EXCEPT !.pc = "store_level",
                                        !.total = Len(sessions["A"].assessment_answers)],
                  sessions["A"])

\* session.assessed_level = level (line 318)
ThreadStoreLevel(t) ==
    /\ threads[t].pc = "store_level"
    /\ ThreadStep(t, [threads[t] EXCEPT !.pc = "store_results"],
                  [sessions["A"] EXCEPT
                      !.assessed_level =
                          Str(LevelOf(Percentage(threads[t].correct_count, threads[t].total)))])

\* session.assessment_results = {...} (lines 319-324)
ThreadStoreResults(t) ==
    /\ threads[t].pc = "store_results"
    /\ LET percentage == Percentage(threads[t].correct_count, threads[t].total)
       IN  ThreadStep(t, [threads[t] EXCEPT !.pc = "store_stage"],
                      [sessions["A"] EXCEPT
                          !.assessment_results =
                              << [correct |-> threads[t].correct_count,
                                  total |-> threads[t].total,
                                  percentage |-> percentage,
                                  level |-> LevelOf(percentage)] >>])

\* session.stage = 'recommendations' (line 326) and the returned dict
ThreadStoreStage(t) ==
    /\ threads[t].pc = "store_stage"
    /\ ThreadStep(t, [threads[t] EXCEPT !.pc = "done", !.outcome = "assessment_complete"],
                  [sessions["A"] EXCEPT !.stage = "recommendations"])

NextThreads ==
    \E t \in Threads :
        \/ \E choice \in {1, 2} : ThreadDispatch(t, choice)
        \/ ThreadReadQuestion(t)
        \/ ThreadAppend(t)
        \/ ThreadIncRead(t)
        \/ ThreadIncWrite(t)
        \/ ThreadCheckEnd(t)
        \/ ThreadNextQuestion(t)
        \/ ThreadQuestionNum(t)
        \/ ThreadCount(t)
        \/ ThreadTotal(t)
        \/ ThreadStoreLevel(t)
        \/ ThreadStoreResults(t)
        \/ ThreadStoreStage(t)

SpecThreads == InitThreads /\ [][NextThreads]_vars

---------------------------------------------------------------------------
(* Properties of the consultation engine.                                  *)

NumQuestions == Len(ASSESSMENT_QUESTIONS)

Completed(s) == s.assessment_results # <<>>

CorrectCount(s) ==
    Cardinality({i \in DOMAIN s.assessment_answers : s.assessment_answers[i].correct})

\* C1: when an assessment completes, percentage = floor(100 * correct / total)
\* over the recorded answers (0 when there are none), the level is 'advanced'
\* from 80, 'intermediate' from 60 to 79 and 'beginner' below, and the same
\* level is in session.assessed_level and in assessment_results['level'].
C1_LevelFromPercentage ==
    \A k \in DOMAIN sessions :
        LET s == sessions[k]
            res == s.assessment_results[1]
            total == Len(s.assessment_answers)
            pct == IF total = 0 THEN 0 ELSE (100 * CorrectCount(s)) \div total
            lvl == CASE pct >= 80 -> S_advanced
                     [] pct >= 60 /\ pct < 80 -> S_intermediate
                     [] OTHER -> S_beginner
        IN  Completed(s) =>
                /\ res.correct = CorrectCount(s)
                /\ res.total = total
                /\ res.percentage = pct
                /\ res.level = lvl
                /\ s.assessed_level = Str(lvl)

\* an assessment completed exactly on the 80% threshold and was assessed advanced
C1_Witness ==
    /\ "A" \in DOMAIN sessions
    /\ Completed(sessions["A"])
    /\ sessions["A"].assessment_results[1].percentage = 80
    /\ sessions["A"].assessed_level = Str(S_advanced)
    /\ responses["A"].stage = "assessment_complete"

\* C2: over any sequence of handle_message calls the stored stage of a session
\* and the stage reported to it ('error' ignored) only move forward in the
\* order welcome, basic_info, assessment_intro, assessment_active,
\* assessment_complete, recommendations.
C2_StageOnlyForward ==
    [][ /\ \A k \in DOMAIN sessions :
              /\ k \in DOMAIN sessions'
              /\ StageRank(sessions'[k].stage) >= StageRank(sessions[k].stage)
        /\ \A k \in SessionIds : StageRank(reported'[k]) >= StageRank(reported[k])
        /\ \A k \in DOMAIN sessions' : StageRank(sessions'[k].stage) >= 1 ]_vars

\* a session went through the assessment to the recommendations
C2_Witness ==
    /\ "A" \in DOMAIN sessions
    /\ sessions["A"].stage = "recommendations"
    /\ Completed(sessions["A"])
    /\ reported["A"] = "recommendations"

\* C3 as stated: once a call answered with stage 'error', no later call for the
\* session moves it to, or reports, any other stage.
C3_ErrorIsTerminal ==
    [][ \A k \in DOMAIN sessions :
            responses[k].stage = "error" =>
                /\ responses'[k].stage = "error"
                /\ sessions'[k].stage = sessions[k].stage ]_vars

\* C3 as amended: 'error' is only reported, never stored; a session whose last
\* answer was 'error' (invalid form data) is still stored in stage basic_info,
\* from which later calls continue.
C3_ErrorLeavesBasicInfo ==
    \A k \in SessionIds :
        responses[k].stage = "error" =>
            /\ k \in DOMAIN sessions
            /\ sessions[k].stage = "basic_info"
            /\ responses[k].error = "Invalid form data"

\* the last answer to the session was an error response
C3_Witness ==
    /\ responses["A"].stage = "error"
    /\ "name" \in DOMAIN sessions["A"].data

\* C4: the stored stage is always one of the five dispatched values, so the
\* 'Invalid session state' branch of handle_message is never taken.
C4_StageDispatched ==
    /\ \A k \in DOMAIN sessions :
           sessions[k].stage \in
               {"welcome", "basic_info", "assessment_intro", "assessment_active",
                "recommendations"}
    /\ \A k \in SessionIds : responses[k].error # "Invalid session state"

\* a call was dispatched on a session whose assessment had completed
C4_Witness ==
    /\ "A" \in DOMAIN sessions
    /\ Completed(sessions["A"])
    /\ responses["A"].stage = "recommendations"

\* C5: a call with session_id A changes the stored state of no other session,
\* every session is stored under its own identifier, and the call works on the
\* state the previous call for A left (it is one of the handlers' results on it).
C5_SessionsIsolated ==
    [][ /\ \A k \in DOMAIN sessions :
              k # last'.session_id => k \in DOMAIN sessions' /\ sessions'[k] = sessions[k]
        /\ \A k \in DOMAIN sessions' : sessions'[k].session_id = k
        /\ last'.session_id \in DOMAIN sessions'
        /\ last'.session_id \in DOMAIN sessions =>
              \E i \in DOMAIN FewRequests :
                  sessions'[last'.session_id] =
                      Dispatch(FewRequests[i].user_input, sessions[last'.session_id],
                               FewRequests[i].action_type).session ]_vars

\* two sessions in different stages, the second one served last
C5_Witness ==
    /\ DOMAIN sessions = {"A", "B"}
    /\ sessions["A"].stage = "recommendations"
    /\ Completed(sessions["A"])
    /\ sessions["B"].stage = "assessment_active"
    /\ Len(sessions["B"].assessment_answers) = 2
    /\ last.session_id = "B"

\* C8: once len(ASSESSMENT_QUESTIONS) answers are accepted the session holds a
\* result with total = number of questions and 0 <= correct <= total; before the
\* last answer is accepted it holds none.
C8_ResultAfterLastAnswer ==
    \A k \in DOMAIN sessions :
        LET s == sessions[k]
            n == Len(s.assessment_answers)
        IN  /\ n <= NumQuestions
            /\ n = NumQuestions =>
                   /\ Completed(s)
                   /\ s.assessment_results[1].total = NumQuestions
                   /\ s.assessment_results[1].correct \in 0..NumQuestions
                   /\ s.assessment_results[1].percentage \in 0..100
            /\ n < NumQuestions => s.assessment_results = <<>>

\* the last answer has just been accepted
C8_Witness ==
    /\ "A" \in DOMAIN sessions
    /\ Len(sessions["A"].assessment_answers) = NumQuestions
    /\ responses["A"].stage = "assessment_complete"
    /\ responses["A"].score = sessions["A"].assessment_results

\* C9: in stage assessment_active current_question equals the number of recorded
\* answers and is below the number of questions; the i-th answer is recorded
\* against question index i-1; the question shown is numbered answers + 1.
C9_QuestionIndex ==
    \A k \in DOMAIN sessions :
        LET s == sessions[k]
        IN  /\ s.stage = "assessment_active" =>
                   /\ s.current_question = Len(s.assessment_answers)
                   /\ s.current_question < NumQuestions
            /\ \A i \in DOMAIN s.assessment_answers :
                   s.assessment_answers[i].question = i - 1
            /\ responses[k].stage = "assessment_active" =>
                   /\ s.stage = "assessment_active"
                   /\ responses[k].question_num = Len(s.assessment_answers) + 1

\* the fourth question is shown after three accepted answers
C9_Witness ==
    /\ "A" \in DOMAIN sessions
    /\ sessions["A"].stage = "assessment_active"
    /\ Len(sessions["A"].assessment_answers) = 3
    /\ responses["A"].question_num = 4

AllChoiceTwo(s) == \A i \in DOMAIN s.assessment_answers : s.assessment_answers[i].choice = 2

LevelOfSession(s) ==
    IF s.assessed_level # None THEN s.assessed_level
    ELSE IF "level" \in DOMAIN s.data THEN s.data["level"]
    ELSE Str(S_intermediate)

C15_RaiseLeavesSession ==
    [][ /\ last'.status = 500 =>
              /\ \A k \in DOMAIN sessions :
                     k \in DOMAIN sessions' /\ sessions'[k] = sessions[k]
              /\ \A k \in DOMAIN sessions' \ DOMAIN sessions :
                     sessions'[k] = ConsultationSession(k)
        /\ last'.status = 400 => sessions' = sessions ]_vars

\* C19: a session moves from basic_info to assessment_intro only when its data
\* holds both 'age_range' and 'level', whatever the action type.
C19_IntroNeedsAgeAndLevel ==
    [][ \A k \in DOMAIN sessions :
            sessions[k].stage = "basic_info" /\ sessions'[k].stage = "assessment_intro" =>
                {"age_range", "level"} \subseteq DOMAIN sessions'[k].data ]_vars

\* the longest sequence of typed answers followed from a session
MaxTextCalls == 3

\* the requests of the model that are typed messages
TextRequests ==
    {Requests[i] : i \in {j \in DOMAIN Requests :
                            Requests[j].action_type = "text" /\ IsStr(Requests[j].user_input)}}

\* the sessions that at most n handle_message calls of action_type 'text' make
\* of the sessions of set S
RECURSIVE TextReach(_, _)
TextReach(S, n) ==
    IF n = 0 THEN S
    ELSE TextReach(S \cup {Dispatch(r.user_input, s, "text").session :
                               s \in S, r \in TextRequests}, n - 1)

\* C20: from a session in stage basic_info some sequence of handle_message
\* calls of action_type 'text' leads to stage assessment_intro.
C20_TypedAnswersAccepted ==
    \A k \in DOMAIN sessions :
        sessions[k].stage = "basic_info" =>
            \E s \in TextReach({sessions[k]}, MaxTextCalls) : s.stage = "assessment_intro"

---------------------------------------------------------------------------
(* Properties of the ingestion of the uploads folder.                      *)

\* the number of items of a knowledge list that hold chunk i of a file
Copies(kb, filename, i) ==
    Cardinality({n \in DOMAIN kb : kb[n].source = filename /\ kb[n].chunk = i})

\* C6: across uploads through /upload, application startups and runs of
\* process_uploads_folder, with no clear of the processed-files list, the chunks
\* of a file of the uploads folder are added to the knowledge base at most once:
\* no knowledge list holds a chunk of a file twice.
C6_ChunksAddedAtMostOnce ==
    \A filename \in folder :
        \A i \in 1..ContentChunks(filename) :
            /\ Copies(appKB, filename, i) <= 1
            /\ Copies(diskKB, filename, i) <= 1

\* C7: after POST /api/process-uploads reports a file as processed, the chunks
\* of that file are in the knowledge base of the application's own InMemoryRAG
\* instance.
C7_ManualProcessingServed ==
    appUp =>
        \A filename \in lastRun :
            \A i \in 1..ContentChunks(filename) : Copies(appKB, filename, i) >= 1

---------------------------------------------------------------------------
(* Properties of /api/chat, the conversation context, the persistence and  *)
(* the search.                                                             *)

\* C13: every /api/chat request dispatched to the FAQ answer generation carries
\* a non-empty category; a request of FAQ mode without category is answered
\* with HTTP 400 and not dispatched; a request without message or without mode
\* is answered with HTTP 400.
C13_FaqNeedsCategory ==
    chat.status # 0 =>
        /\ chat.route = "faq" => Truthy(chat.category)
        /\ (EqStr(chat.mode, S_faq) \/ EqStr(chat.mode, S_FAQ)) /\ ~Truthy(chat.category) =>
               chat.status = 400 /\ chat.route = "none"
        /\ ~Truthy(chat.message) \/ ~Truthy(chat.mode) => chat.status = 400

\* C14: the context used to answer a /api/chat request holds only exchanges
\* that were saved while answering requests of the same session_id.
C14_ContextOfOwnSession ==
    \A i \in DOMAIN chat.context : chat.context[i].request_session = chat.session_id

PassesFilters(item) ==
    \A key \in DOMAIN search.filters :
        /\ key \in DOMAIN item.metadata
        /\ LET value == search.filters[key]
           IN  IF value.list
               THEN item.metadata[key] \in {value.v[i] : i \in DOMAIN value.v}
               ELSE item.metadata[key] = value.v[1]

\* C18: search_knowledge_base returns at most limit items, in non-increasing
\* order of relevance, each one an item of the knowledge base that passes every
\* filter; no item that passes the filters and is not returned is more relevant
\* than a returned one; nothing is returned from an empty knowledge base or
\* when no item passes.
C18_FilteredTopK ==
    search.done =>
        LET kb == search.knowledge_base
            res == search.results
            passing == {i \in DOMAIN kb : PassesFilters(kb[i])}
            returned == {res[i].id : i \in DOMAIN res}
        IN  /\ Len(res) <= search.limit
            /\ \A i, j \in DOMAIN res : i < j => res[i].relevance >= res[j].relevance
            /\ \A i, j \in DOMAIN res : i # j => res[i].id # res[j].id
            /\ \A i \in DOMAIN res :
                   /\ res[i].id \in DOMAIN kb
                   /\ res[i] = kb[res[i].id]
                   /\ PassesFilters(res[i])
            /\ \A i \in passing \ returned :
                   \A j \in DOMAIN res : kb[i].relevance <= res[j].relevance
            /\ kb = <<>> \/ passing = {} => res = <<>>

\* a search cut by its limit, with an item filtered out and a more relevant
\* item found behind a less relevant one
C18_Witness ==
    /\ search.done
    /\ DOMAIN search.filters # {}
    /\ Len(search.knowledge_base) = 3
    /\ Len(search.results) = 1
    /\ search.limit = 1
    /\ search.results[1].id = 3
    /\ search.results[1].relevance > search.knowledge_base[1].relevance
    /\ PassesFilters(search.knowledge_base[1])
    /\ ~PassesFilters(search.knowledge_base[2])

---------------------------------------------------------------------------
(* Properties of requests served at the same time.                         *)

---------------------------------------------------------------------------
(* Properties of the answers to the assessment questions and of the skip.  *)

\* a request that delivers no answer choice: a message that is no text, an
\* answer button whose id names no number, or a text without 1, 2 or 3
NoChoiceIn(request) ==
    \/ ~IsStr(request.user_input)
    \/ /\ IsStr(request.user_input)
       /\ IF request.action_type = "button_click" /\ StartsWith(request.user_input.v, S_answer_)
          THEN ~IntParse(RemoveAll(request.user_input.v, S_answer_)).ok
          ELSE extract_choice_from_text(request.user_input.v) = 0

\* C21: a request that delivers no answer choice to a session in
\* assessment_active leaves the session as it was and is answered with the
\* same question again, behind the 'Please select one of the options' text.
C21_NoChoiceShowsQuestionAgain ==
    [][ \A k \in DOMAIN sessions :
            /\ sessions[k].stage = "assessment_active"
            /\ last'.session_id = k
            /\ NoChoiceIn(last'.request)
            => /\ sessions'[k] = sessions[k]
               /\ last'.status = 200
               /\ responses'[k].stage = "assessment_active"
               /\ responses'[k].prompt
               /\ responses'[k].question_num = sessions[k].current_question + 1 ]_vars

\* C22: every answer recorded in a session has a choice that is one of the
\* offered options 1, 2, 3, whichever action type delivered it.
C22_RecordedChoiceIsOffered ==
    \A k \in DOMAIN sessions :
        \A i \in DOMAIN sessions[k].assessment_answers :
            sessions[k].assessment_answers[i].choice \in 1..3

\* a request that starts the assessment: the start button, or a text with one
\* of the words start, begin, yes, ready
IsStartRequest(request) ==
    \/ request.action_type = "button_click" /\ EqStr(request.user_input, S_start_assessment)
    \/ /\ IsStr(request.user_input)
       /\ AnyWordIn(request.user_input.v, <<S_start, S_begin, S_yes, S_ready>>)

\* a request that skips it: the skip button, or a text with one of the words
\* skip, no, later and no word that starts the assessment
IsSkipRequest(request) ==
    /\ ~IsStartRequest(request)
    /\ \/ request.action_type = "button_click" /\ EqStr(request.user_input, S_skip_assessment)
       \/ /\ IsStr(request.user_input)
          /\ AnyWordIn(request.user_input.v, <<S_skip, S_no, S_later>>)

\* C23: a skip request moves a session in assessment_intro to recommendations
\* with assessed_level the self-reported level ('intermediate' when there is
\* none), without answers and without assessment result; a request that
\* neither starts nor skips leaves the session as it was.
C23_SkipGoesToRecommendations ==
    [][ \A k \in DOMAIN sessions :
            sessions[k].stage = "assessment_intro" /\ last'.session_id = k =>
                /\ IsSkipRequest(last'.request) =>
                       /\ sessions'[k].stage = "recommendations"
                       /\ sessions'[k].assessed_level =
                              IF "level" \in DOMAIN sessions[k].data
                              THEN sessions[k].data["level"]
                              ELSE Str(S_intermediate)
                       /\ sessions'[k].assessment_answers = <<>>
                       /\ sessions'[k].assessment_results = <<>>
                       /\ sessions'[k].data = sessions[k].data
                /\ ~IsSkipRequest(last'.request) /\ ~IsStartRequest(last'.request) =>
                       sessions'[k] = sessions[k] ]_vars

\* a typed skip has taken a session with the self-reported level 'beginner'
\* to the recommendations
C23_Witness ==
    /\ "A" \in DOMAIN sessions
    /\ last.session_id = "A"
    /\ last.status = 200
    /\ last.request = Request(Str(T_not_now), "text")
    /\ sessions["A"].stage = "recommendations"
    /\ "level" \in DOMAIN sessions["A"].data
    /\ sessions["A"].assessed_level = Str(S_beginner)
    /\ sessions["A"].assessment_answers = <<>>
    /\ sessions["A"].assessment_results = <<>>
    /\ reported["A"] = "recommendations"

---------------------------------------------------------------------------
(* Property of the repeated processing of the uploads folder.              *)

\* C24: once a pass of the startup processing or of process_uploads_folder
\* over the uploads folder has ended, should_process_uploads() is False until
\* a new file is added: a step that starts the application, or that marks
\* files as processed, ends with should_process_uploads() False.
C24_ProcessingConverges ==
    [][ (~appUp /\ appUp') \/ processed' # processed =>
            ~should_process_uploads(folder', processed') ]_vars

====
